---- MODULE Spec2Model ----
\* Verification model of video2fit.py: the container-box walker
\* (get_video_uuid), the record decoder (parse_fit_file), the device-file
\* matcher (get_fit_file_for_video) and the session extractor
\* (get_telemetry_dataframe).
EXTENDS Integers, Sequences, FiniteSets, TLC

VARIABLES
    \* ---- get_video_uuid (box walker) ----
    top,        \* the box tree the video file was serialised from
    mutation,   \* damage applied to the serialised bytes
    file,       \* the bytes of the video file
    pos,        \* f.tell()
    cidx,       \* index into atom_container_names of the for loop
    uuid,       \* the local variable uuid (None, or a decoded string)
    bpc,        \* "idle" | "loop" | "returned" | "raised"
    bexc,       \* the exception that ended the walk, "" when none
    scanned,    \* number of box headers read so far (iterations of the while)
    \* ---- parse_fit_file ----
    messages,   \* fitfile.messages of the file being decoded
    parsed,     \* the returned pair (camera_events_data, telemetry_data)
    ppc,        \* "idle" | "returned"
    \* ---- get_fit_file_for_video / get_telemetry_dataframe ----
    command,            \* args.command
    listing,            \* os.listdir(fit_dir): names with their content
    video_uuid,         \* get_fit_file_for_video's video_uuid
    fit_file,           \* its fit_file (also the loop variable)
    camera_events_data, \* its camera_events_data, None before the first decode
    telemetry_data,     \* its telemetry_data, None before the first decode
    lidx,               \* position of the for loop in the listing
    decoded,            \* names handed to parse_fit_file so far
    epc,                \* "idle" | "scan" | "scanned" | "done" | "raised"
    eexc,               \* the exception raised, and where
    df,                 \* the frame after fillna, None before line 138
    table               \* the returned frame, None when none is returned

boxVars == <<top, mutation, file, pos, cidx, uuid, bpc, bexc, scanned>>
parseVars == <<messages, parsed, ppc>>
extractVars ==
    <<command, listing, video_uuid, fit_file, camera_events_data, telemetry_data,
      lidx, decoded, epc, eexc, df, table>>
vars == <<boxVars, parseVars, extractVars>>

\* ---------------------------------------------------------------- helpers

Min(a, b) == IF a < b THEN a ELSE b

\* Python's None and a present value, kept apart from every string value.
None == [some |-> FALSE, val |-> <<>>]
Some(v) == [some |-> TRUE, val |-> v]

\* An undamaged file.
NoDamage == [kind |-> "none", arg |-> 0]

\* The parts of the state a specification does not exercise stay as follows.
NotParsed == [camera_events_data |-> <<>>, telemetry_data |-> <<>>]

BoxIdle ==
    /\ top = <<>>
    /\ mutation = NoDamage
    /\ file = <<>>
    /\ pos = 0
    /\ cidx = 1
    /\ uuid = None
    /\ bpc = "idle"
    /\ bexc = ""
    /\ scanned = 0

ParseIdle ==
    /\ messages = <<>>
    /\ parsed = NotParsed
    /\ ppc = "idle"

NoExc == [exc |-> "", explicit |-> FALSE, at |-> ""]

ExtractIdle ==
    /\ command = ""
    /\ listing = <<>>
    /\ video_uuid = None
    /\ fit_file = None
    /\ camera_events_data = None
    /\ telemetry_data = None
    /\ lidx = 1
    /\ decoded = <<>>
    /\ epc = "idle"
    /\ eexc = NoExc
    /\ df = None
    /\ table = None

\* ---------------------------------------------------------------- bytes

\* struct.unpack(">I", b) on exactly four bytes.
UnpackU32BE(b) == ((b[1] * 256 + b[2]) * 256 + b[3]) * 256 + b[4]

\* struct.pack(">I", n): the producer's side of the length field.
PackU32BE(n) ==
    << (n \div 16777216) % 256, (n \div 65536) % 256, (n \div 256) % 256, n % 256 >>

IsCont(b) == b >= 128 /\ b <= 191

\* Length of the UTF-8 sequence that starts at s[i], 0 when s[i..] does not
\* start with a valid sequence (the strict decoder of bytes.decode("utf-8")).
Utf8SeqLen(s, i) ==
    LET n == Len(s)
        b0 == s[i]
        c(k) == i + k <= n /\ IsCont(s[i + k])
    IN  IF b0 < 128 THEN 1
        ELSE IF b0 >= 194 /\ b0 <= 223 THEN (IF c(1) THEN 2 ELSE 0)
        ELSE IF b0 = 224 THEN
            (IF c(1) /\ s[i + 1] >= 160 /\ c(2) THEN 3 ELSE 0)
        ELSE IF b0 = 237 THEN
            (IF c(1) /\ s[i + 1] <= 159 /\ c(2) THEN 3 ELSE 0)
        ELSE IF b0 >= 225 /\ b0 <= 239 THEN (IF c(1) /\ c(2) THEN 3 ELSE 0)
        ELSE IF b0 = 240 THEN
            (IF c(1) /\ s[i + 1] >= 144 /\ c(2) /\ c(3) THEN 4 ELSE 0)
        ELSE IF b0 = 244 THEN
            (IF c(1) /\ s[i + 1] <= 143 /\ c(2) /\ c(3) THEN 4 ELSE 0)
        ELSE IF b0 >= 241 /\ b0 <= 243 THEN
            (IF c(1) /\ c(2) /\ c(3) THEN 4 ELSE 0)
        ELSE 0

\* The code point encoded by the k-byte sequence at s[i].
Utf8CodePoint(s, i, k) ==
    CASE k = 1 -> s[i]
      [] k = 2 -> (s[i] - 192) * 64 + (s[i + 1] - 128)
      [] k = 3 -> ((s[i] - 224) * 64 + (s[i + 1] - 128)) * 64 + (s[i + 2] - 128)
      [] OTHER -> (((s[i] - 240) * 64 + (s[i + 1] - 128)) * 64
                    + (s[i + 2] - 128)) * 64 + (s[i + 3] - 128)

RECURSIVE Utf8From(_, _, _)
Utf8From(s, i, acc) ==
    IF i > Len(s) THEN [ok |-> TRUE, str |-> acc]
    ELSE LET k == Utf8SeqLen(s, i)
         IN  IF k = 0 THEN [ok |-> FALSE, str |-> <<>>]
             ELSE Utf8From(s, i + k, Append(acc, Utf8CodePoint(s, i, k)))

\* bytes.decode("utf-8"): the string as its code points, or a
\* UnicodeDecodeError (ok = FALSE).
Utf8Decode(s) ==
    IF \A i \in 1..Len(s) : s[i] < 128
    THEN [ok |-> TRUE, str |-> s]      \* ASCII: one code point per byte
    ELSE Utf8From(s, 1, <<>>)

\* ---------------------------------------------------------------- box files

\* Bytes of a box header: 4 length bytes and 4 name bytes (off = 4, off += 4).
HeaderLen == 8

\* f.read(95): the fixed payload length of the uuid box.
UuidPayloadLen == 95

\* atom_container_names = ['moov', 'udta', 'uuid'], as code points.
NameMoov == <<109, 111, 111, 118>>
NameUdta == <<117, 100, 116, 97>>
NameUuid == <<117, 117, 105, 100>>
NameFree == <<102, 114, 101, 101>>
atom_container_names == <<NameMoov, NameUdta, NameUuid>>

\* Bounds of the generated containers, and of the count of iterations kept
\* for a walk that does not end.
MaxSiblings == 2
MaxScans == 10

\* A 95-byte ASCII payload that starts at the given character.
Payload(first) == [i \in 1..UuidPayloadLen |-> first + (i % 10)]

\* Two distinguishable payloads: the session identifier of the video and the
\* payload of a uuid box of another session.
TargetId == Payload(48)
OtherId == Payload(65)

Filler(n) == [i \in 1..n |-> 0]

Leaf(name, n) == [name |-> name, payload |-> Filler(n), kids |-> <<>>]
UuidBox(payload) == [name |-> NameUuid, payload |-> payload, kids |-> <<>>]
Container(name, kids) == [name |-> name, payload |-> <<>>, kids |-> kids]

\* A box is its 4-byte big-endian length (header included), its name, its
\* payload and its child boxes.
RECURSIVE BoxSize(_), BoxesSize(_), SerBox(_), SerBoxes(_)
BoxesSize(bs) == IF bs = <<>> THEN 0 ELSE BoxSize(Head(bs)) + BoxesSize(Tail(bs))
BoxSize(b) == HeaderLen + Len(b.payload) + BoxesSize(b.kids)
SerBoxes(bs) == IF bs = <<>> THEN <<>> ELSE SerBox(Head(bs)) \o SerBoxes(Tail(bs))
SerBox(b) == PackU32BE(BoxSize(b)) \o b.name \o b.payload \o SerBoxes(b.kids)

\* Boxes that may stand as siblings anywhere in the tree: a free box, a udta
\* holding a uuid, and a bare uuid.
Siblings ==
    { Leaf(NameFree, 3), Container(NameUdta, <<UuidBox(OtherId)>>), UuidBox(OtherId) }

SiblingSeqs(n) == UNION { [1..k -> Siblings] : k \in 0..n }

\* shape 0: no moov; 1: moov without udta; 2: moov/udta without uuid;
\* 3: moov/udta/uuid.
Tree(shape, pre, mid, inner, post) ==
    LET u == Container(NameUdta,
                 inner \o (IF shape = 3 THEN <<UuidBox(TargetId)>> ELSE <<>>))
        m == Container(NameMoov, mid \o (IF shape >= 2 THEN <<u>> ELSE <<>>))
    IN  pre \o (IF shape >= 1 THEN <<m>> ELSE <<>>) \o post

Trees ==
    UNION { UNION { UNION { UNION {
        { Tree(shape, pre, mid, inner, post) :
            post \in SiblingSeqs(IF shape < 1 THEN 0
                       ELSE MaxSiblings - Len(pre) - Len(mid) - Len(inner)) } :
          inner \in SiblingSeqs(IF shape < 2 THEN 0
                       ELSE MaxSiblings - Len(pre) - Len(mid)) } :
          mid \in SiblingSeqs(IF shape < 1 THEN 0 ELSE MaxSiblings - Len(pre)) } :
          pre \in SiblingSeqs(MaxSiblings) } :
          shape \in 0..3 }

\* Damage a producer or a transfer can do to the bytes: a first box that
\* declares a length below its header, a file cut short, a name byte that is
\* no UTF-8.
Mutations ==
    {NoDamage}
      \cup { [kind |-> "declen", arg |-> v] : v \in 0..(HeaderLen - 1) }
      \cup { [kind |-> "trunc", arg |-> d] : d \in 1..(HeaderLen - 1) }
      \cup { [kind |-> "name", arg |-> 169] }

Damage(bytes, mut) ==
    CASE mut.kind = "declen" ->
            PackU32BE(mut.arg) \o SubSeq(bytes, 5, Len(bytes))
      [] mut.kind = "trunc" -> SubSeq(bytes, 1, Len(bytes) - mut.arg)
      [] mut.kind = "name" ->
            [i \in 1..Len(bytes) |-> IF i = 5 THEN mut.arg ELSE bytes[i]]
      [] OTHER -> bytes

\* ---------------------------------------------------------------- get_video_uuid

\* f.read(n) at position p: the bytes up to the end of the file.
Read(f, p, n) == SubSeq(f, p + 1, Min(p + n, Len(f)))

\* A plausible slip: the bytes already consumed are not taken off the length.
SeekDeltaWholeLength(value, off) == value

\* f.seek(value - off, os.SEEK_CUR): the relative distance of the seek.
SeekDelta(value, off) == value - off

Raise(exc, p, u) == [kind |-> "raise", pos |-> p, uuid |-> u, exc |-> exc]

\* One iteration of the while loop (lines 29-40) at position p, looking for
\* cname, with u the current value of uuid.
ReadBox(f, p, cname, u) ==
    LET lenBytes == Read(f, p, 4)
        p1 == p + Len(lenBytes)
        nameBytes == Read(f, p1, 4)
        p2 == p1 + Len(nameBytes)
        name == Utf8Decode(nameBytes)
        payload == Read(f, p2, UuidPayloadLen)
        text == Utf8Decode(payload)
    IN  IF Len(lenBytes) # 4 THEN Raise("struct.error", p1, u)
        ELSE IF ~name.ok THEN Raise("UnicodeDecodeError", p2, u)
        ELSE IF name.str = cname THEN
            IF name.str = NameUuid THEN
                IF ~text.ok THEN Raise("UnicodeDecodeError", p2 + Len(payload), u)
                ELSE [kind |-> "match", pos |-> p2 + Len(payload),
                      uuid |-> Some(text.str), exc |-> ""]
            ELSE [kind |-> "match", pos |-> p2, uuid |-> u, exc |-> ""]
        ELSE LET off == HeaderLen
                 target == p2 + SeekDelta(UnpackU32BE(lenBytes), off)
             IN  IF target < 0 THEN Raise("OSError", p2, u)
                 ELSE [kind |-> "skip", pos |-> target, uuid |-> u, exc |-> ""]

InitBox ==
    /\ top \in Trees
    /\ mutation \in Mutations
    /\ mutation.kind # "none" => Len(SerBoxes(top)) >= HeaderLen
    /\ file = Damage(SerBoxes(top), mutation)
    /\ pos = 0
    /\ cidx = 1
    /\ uuid = None
    /\ bpc = "idle"
    /\ bexc = ""
    /\ scanned = 0
    /\ ParseIdle
    /\ ExtractIdle

\* with open(vid_name, "rb") as f: uuid = None; file_size = getsize
BoxOpen ==
    /\ bpc = "idle"
    /\ bpc' = "loop"
    /\ pos' = 0
    /\ cidx' = 1
    /\ uuid' = None
    /\ UNCHANGED <<top, mutation, file, bexc, scanned, parseVars, extractVars>>

InLoop ==
    /\ bpc = "loop"
    /\ cidx <= Len(atom_container_names)
    /\ pos < Len(file)
    /\ scanned < MaxScans

\* name == container_name: break to the next container name
BoxMatch ==
    /\ InLoop
    /\ scanned' = scanned + 1
    /\ LET r == ReadBox(file, pos, atom_container_names[cidx], uuid)
       IN  /\ r.kind = "match"
           /\ pos' = r.pos
           /\ uuid' = r.uuid
           /\ cidx' = cidx + 1
    /\ UNCHANGED <<top, mutation, file, bpc, bexc, parseVars, extractVars>>

\* f.seek(value - off, os.SEEK_CUR)
BoxSkip ==
    /\ InLoop
    /\ scanned' = scanned + 1
    /\ LET r == ReadBox(file, pos, atom_container_names[cidx], uuid)
       IN  /\ r.kind = "skip"
           /\ pos' = r.pos
    /\ UNCHANGED <<top, mutation, file, cidx, uuid, bpc, bexc, parseVars, extractVars>>

\* struct.unpack, decode or seek raises
BoxRaise ==
    /\ InLoop
    /\ scanned' = scanned + 1
    /\ LET r == ReadBox(file, pos, atom_container_names[cidx], uuid)
       IN  /\ r.kind = "raise"
           /\ pos' = r.pos
           /\ bexc' = r.exc
           /\ bpc' = "raised"
    /\ UNCHANGED <<top, mutation, file, cidx, uuid, parseVars, extractVars>>

\* while f.tell() < file_size is false: the for loop takes the next name
BoxExhausted ==
    /\ bpc = "loop"
    /\ cidx <= Len(atom_container_names)
    /\ pos >= Len(file)
    /\ cidx' = cidx + 1
    /\ UNCHANGED <<top, mutation, file, pos, uuid, bpc, bexc, scanned, parseVars, extractVars>>

\* return uuid
BoxReturn ==
    /\ bpc = "loop"
    /\ cidx > Len(atom_container_names)
    /\ bpc' = "returned"
    /\ UNCHANGED <<top, mutation, file, pos, cidx, uuid, bexc, scanned, parseVars, extractVars>>

NextBox == BoxOpen \/ BoxMatch \/ BoxSkip \/ BoxRaise \/ BoxExhausted \/ BoxReturn

SpecBox == InitBox /\ [][NextBox]_vars

\* The whole function on a file: the loops of lines 27-40 run to the end.
RECURSIVE ScanFrom(_, _, _, _)
ScanFrom(f, p, i, u) ==
    IF i > Len(atom_container_names) THEN [raised |-> FALSE, uuid |-> u, exc |-> ""]
    ELSE IF p >= Len(f) THEN ScanFrom(f, p, i + 1, u)
    ELSE CHOOSE result \in
            { CASE r.kind = "match" -> ScanFrom(f, r.pos, i + 1, r.uuid)
                [] r.kind = "skip" -> ScanFrom(f, r.pos, i, u)
                [] OTHER -> [raised |-> TRUE, uuid |-> u, exc |-> r.exc] :
              r \in {ReadBox(f, p, atom_container_names[i], u)} } : TRUE

get_video_uuid(f) == ScanFrom(f, 0, 1, None)

\* ---------------------------------------------------------------- box claims

\* Index of the first box of bs with the given name, 0 when there is none.
FirstNamed(bs, name) ==
    IF \E i \in 1..Len(bs) : bs[i].name = name
    THEN CHOOSE i \in 1..Len(bs) :
            bs[i].name = name /\ \A j \in 1..(i - 1) : bs[j].name # name
    ELSE 0

\* Offset of the i-th box of bs when bs starts at base.
OffsetOf(bs, i, base) == base + BoxesSize(SubSeq(bs, 1, i - 1))

\* The uuid box reached by the nested path moov -> udta -> uuid, each element
\* looked up among the children of the previous one: its offset in the file
\* and its payload; found = FALSE when some element has no such child.
NestedPath(t) ==
    LET m == FirstNamed(t, NameMoov)
        mo == OffsetOf(t, m, 0)
        mk == t[m].kids
        u == FirstNamed(mk, NameUdta)
        uo == OffsetOf(mk, u, mo + HeaderLen)
        uk == mk[u].kids
        x == FirstNamed(uk, NameUuid)
        xo == OffsetOf(uk, x, uo + HeaderLen)
        missing == [found |-> FALSE, offset |-> 0, payload |-> <<>>]
    IN  IF m = 0 THEN missing
        ELSE IF u = 0 THEN missing
        ELSE IF x = 0 THEN missing
        ELSE [found |-> TRUE, offset |-> xo, payload |-> uk[x].payload]

\* Every offset at which a box of the tree starts or ends.
RECURSIVE Edges(_, _)
Edges(bs, base) ==
    IF bs = <<>> THEN {base}
    ELSE LET b == Head(bs)
         IN  {base} \cup Edges(b.kids, base + HeaderLen + Len(b.payload))
                    \cup Edges(Tail(bs), base + BoxSize(b))

WellFormed == mutation = NoDamage

\* C3: in a well-formed container the walk never raises, every header is read
\* at a box edge of the tree (a skipped sibling is left at its exact end), and
\* when the nested path moov -> udta -> uuid exists the result is exactly the
\* 95 bytes that follow the uuid box's name.
C3_ExactPayload ==
    WellFormed =>
        /\ bpc # "raised"
        /\ pos \in Edges(top, 0)
        /\ (bpc = "returned" /\ NestedPath(top).found) =>
              LET np == NestedPath(top)
              IN  /\ uuid.some
                  /\ Len(uuid.val) = UuidPayloadLen
                  /\ uuid.val = np.payload
                  /\ uuid.val = SubSeq(file, np.offset + HeaderLen + 1,
                                       np.offset + HeaderLen + UuidPayloadLen)

\* A walk that skipped a sibling larger than its header before moov and
\* returned the payload of the video's uuid box.
C3_Witness ==
    /\ WellFormed
    /\ bpc = "returned"
    /\ NestedPath(top).found
    /\ FirstNamed(top, NameMoov) > 1
    /\ BoxSize(top[1]) > HeaderLen
    /\ uuid = Some(TargetId)

\* C9: when the nested path does not exist in the container (also when the
\* file is cut short), the walk returns None and raises nothing.
C9_NotFoundIsNone ==
    (/\ bpc \in {"returned", "raised"}
     /\ mutation.kind \in {"none", "trunc"}
     /\ ~NestedPath(top).found)
        => (bpc = "returned" /\ uuid = None)

\* C10: every iteration of the scan that goes on to another iteration leaves
\* the read position strictly further in the file.
C10_PositionAdvances ==
    [][(scanned' = scanned + 1 /\ bpc' = "loop") => pos' > pos]_vars

\* The bound on the count cuts no walk that ends: a walk that reaches it has
\* read the same header again and again.
ScanBoundOnlyCutsLoops ==
    (bpc = "loop" /\ scanned = MaxScans /\ cidx <= Len(atom_container_names)
        /\ pos < Len(file))
      => ReadBox(file, pos, atom_container_names[cidx], uuid).pos = pos

\* ---------------------------------------------------------------- parse_fit_file

telemetry_allowed_fields ==
    {"timestamp", "utc_timestamp", "position_lat", "position_long",
     "enhanced_altitude", "enhanced_speed", "speed"}
telemetry_required_fields == {"position_lat", "position_long"}
camera_event_fields == {"camera_event_type", "camera_file_uuid", "timestamp"}

\* The dict built by "for field in message.fields: if field.name in allowed".
Project(fields, allowed) == [k \in (DOMAIN fields) \cap allowed |-> fields[k]]

\* A plausible slip: one required field is checked instead of both.
KeepsTelemetryAnyRequired(message_data) ==
    telemetry_required_fields \cap DOMAIN message_data # {}

\* set(telemetry_required_fields).issubset(set(message_data.keys()))
KeepsTelemetry(message_data) == telemetry_required_fields \subseteq DOMAIN message_data

\* The loop of lines 69-84 over the messages from index i on. Every message of
\* fitfile.messages is a data message and has a fields list.
RECURSIVE ParseFrom(_, _, _, _)
ParseFrom(msgs, i, camera_events, telemetry) ==
    IF i > Len(msgs) THEN [camera_events_data |-> camera_events, telemetry_data |-> telemetry]
    ELSE LET message == msgs[i]
         IN  IF message.name = "camera_event"
             THEN ParseFrom(msgs, i + 1,
                     Append(camera_events, Project(message.fields, camera_event_fields)),
                     telemetry)
             ELSE LET message_data == Project(message.fields, telemetry_allowed_fields)
                  IN  ParseFrom(msgs, i + 1, camera_events,
                         IF KeepsTelemetry(message_data)
                         THEN Append(telemetry, message_data) ELSE telemetry)

parse_fit_file(msgs) == ParseFrom(msgs, 1, <<>>, <<>>)

\* Bound on the number of messages of a generated device file.
MaxMsgs == 3

\* Messages a device file may hold: position samples with and without the
\* required fields and with fields outside the whitelist, and camera events
\* with and without the identifier.
MessageKinds ==
    { [name |-> "gps_metadata",
       fields |-> [timestamp |-> 10, position_lat |-> 1, position_long |-> 2,
                   enhanced_altitude |-> 100, heart_rate |-> 90]],
      [name |-> "record",
       fields |-> [timestamp |-> 20, position_lat |-> 1, position_long |-> 2]],
      [name |-> "record", fields |-> [timestamp |-> 30, position_lat |-> 1]],
      [name |-> "record",
       fields |-> [timestamp |-> 30, position_long |-> 2, speed |-> 5]],
      [name |-> "session", fields |-> [timestamp |-> 40, enhanced_speed |-> 5]],
      [name |-> "camera_event",
       fields |-> [camera_event_type |-> "video_start", camera_file_uuid |-> TargetId,
                   timestamp |-> 20, camera_orientation |-> 0]],
      [name |-> "camera_event",
       fields |-> [camera_event_type |-> "video_end", timestamp |-> 40]],
      [name |-> "camera_event",
       fields |-> [timestamp |-> 20, position_lat |-> 1, position_long |-> 2]] }

MessageSeqs == UNION { [1..k -> MessageKinds] : k \in 0..MaxMsgs }

InitParse ==
    /\ BoxIdle
    /\ ExtractIdle
    /\ messages \in MessageSeqs
    /\ parsed = NotParsed
    /\ ppc = "idle"

\* camera_events_data, telemetry_data = parse_fit_file(path)
Parse ==
    /\ ppc = "idle"
    /\ parsed' = parse_fit_file(messages)
    /\ ppc' = "returned"
    /\ UNCHANGED <<messages, boxVars, extractVars>>

NextParse == Parse

SpecParse == InitParse /\ [][NextParse]_vars

\* ---------------------------------------------------------------- decoder claims

IsTelemetry(m) ==
    /\ m.name # "camera_event"
    /\ "position_lat" \in DOMAIN m.fields
    /\ "position_long" \in DOMAIN m.fields

IsCameraEvent(m) == m.name = "camera_event"

\* C8: the Telemetry sequence is, in source order and with repetitions kept,
\* the whitelisted fields of exactly the non-camera-event messages that carry
\* both latitude and longitude; the Event sequence is, in source order, the
\* whitelisted fields of exactly the camera-event messages, one entry each.
C8_DecoderClassifies ==
    ppc = "returned" =>
        LET tel == SelectSeq(messages, IsTelemetry)
            cam == SelectSeq(messages, IsCameraEvent)
        IN  /\ Len(parsed.telemetry_data) = Len(tel)
            /\ \A i \in 1..Len(tel) :
                  /\ DOMAIN parsed.telemetry_data[i]
                        = (DOMAIN tel[i].fields) \cap telemetry_allowed_fields
                  /\ \A k \in DOMAIN parsed.telemetry_data[i] :
                        parsed.telemetry_data[i][k] = tel[i].fields[k]
            /\ Len(parsed.camera_events_data) = Len(cam)
            /\ \A i \in 1..Len(cam) :
                  /\ DOMAIN parsed.camera_events_data[i]
                        = (DOMAIN cam[i].fields) \cap camera_event_fields
                  /\ \A k \in DOMAIN parsed.camera_events_data[i] :
                        parsed.camera_events_data[i][k] = cam[i].fields[k]

\* A decoded file that holds a sample with latitude only, a full sample and a
\* camera event that itself carries a position.
C8_Witness ==
    /\ ppc = "returned"
    /\ \E i \in 1..Len(messages) :
          /\ messages[i].name # "camera_event"
          /\ "position_lat" \in DOMAIN messages[i].fields
          /\ "position_long" \notin DOMAIN messages[i].fields
    /\ \E i \in 1..Len(messages) :
          IsCameraEvent(messages[i]) /\ "position_lat" \in DOMAIN messages[i].fields
    /\ Len(parsed.telemetry_data) = 1
    /\ Len(parsed.camera_events_data) = 1

\* ---------------------------------------------------------------- pandas

\* A cell of a DataFrame: a value, or NaN for a key the row's dict lacks.
NaN == [isna |-> TRUE, val |-> 0]
Cell(v) == [isna |-> FALSE, val |-> v]

Columns(rows) == UNION { DOMAIN rows[i] : i \in 1..Len(rows) }

\* pd.DataFrame(telemetry_data): one row per dict, one column per key seen.
DataFrame(rows) ==
    [i \in 1..Len(rows) |->
        [c \in Columns(rows) |-> IF c \in DOMAIN rows[i] THEN Cell(rows[i][c]) ELSE NaN]]

\* A plausible slip: method="bfill", each gap takes the next value below it.
fillna_backfill(frame) ==
    [i \in 1..Len(frame) |->
        [c \in DOMAIN frame[i] |->
            IF \E j \in i..Len(frame) : ~frame[j][c].isna
            THEN frame[CHOOSE j \in i..Len(frame) :
                        /\ ~frame[j][c].isna
                        /\ \A k \in i..(j - 1) : frame[k][c].isna][c]
            ELSE NaN]]

RECURSIVE PadFrom(_, _, _, _)
PadFrom(frame, i, last, acc) ==
    IF i > Len(frame) THEN acc
    ELSE LET row == [c \in DOMAIN frame[i] |->
                        IF frame[i][c].isna THEN last[c] ELSE frame[i][c]]
         IN  PadFrom(frame, i + 1, row, Append(acc, row))

\* df.fillna(method="pad"): down each column, a NaN takes the value last seen.
fillna_pad(frame) ==
    IF frame = <<>> THEN <<>> ELSE PadFrom(frame, 2, frame[1], <<frame[1]>>)

\* A plausible slip: <= on the end of the window.
InWindowClosed(cell, start, end) == ~cell.isna /\ cell.val >= start /\ cell.val <= end

\* (df.timestamp >= start) & (df.timestamp < end) on one row; a comparison
\* with NaN is False.
InWindow(cell, start, end) == ~cell.isna /\ cell.val >= start /\ cell.val < end

\* df[mask]: the rows the mask keeps, each with its index label.
RECURSIVE TrimFrom(_, _, _, _, _)
TrimFrom(frame, i, start, end, acc) ==
    IF i > Len(frame) THEN acc
    ELSE TrimFrom(frame, i + 1, start, end,
            IF InWindow(frame[i]["timestamp"], start, end)
            THEN Append(acc, [index |-> i - 1, row |-> frame[i]]) ELSE acc)

\* ---------------------------------------------------------------- device files

\* Bounds on the directory listing and on the samples of a generated file.
MaxFiles == 2
MaxRows == 4

DotFit == <<".", "f", "i", "t">>
FitName(c) == <<c>> \o DotFit

\* str.endswith
EndsWith(name, suffix) ==
    /\ Len(name) >= Len(suffix)
    /\ SubSeq(name, Len(name) - Len(suffix) + 1, Len(name)) = suffix

CameraEvent(type, id, ts) ==
    [name |-> "camera_event",
     fields |-> [camera_event_type |-> type, camera_file_uuid |-> id, timestamp |-> ts]]

Position == [position_lat |-> 1, position_long |-> 2]
Sample(fields) == [name |-> "gps_metadata", fields |-> fields @@ Position]

S10 == Sample([timestamp |-> 10, enhanced_altitude |-> 100])
S20 == Sample([timestamp |-> 20])
S30 == Sample([timestamp |-> 30, enhanced_speed |-> 5])
S40 == Sample([timestamp |-> 40, enhanced_altitude |-> 400])
SNoTime == Sample(<<>>)

SampleKinds == {S10, S20, S30, S40, SNoTime}
SampleSeqs == UNION { [1..k -> SampleKinds] : k \in 0..MaxRows }

DeviceFile(name, ok, msgs) == [name |-> name, decodes |-> ok, messages |-> msgs]

\* The device files of a directory: other sessions, the video's session, a
\* camera event without identifier, a file the codec rejects, a session with
\* its end event only, a second file of the video's session, an event of the
\* session without event type, and an entry that is no device file.
FixedFiles ==
    { DeviceFile(FitName("a"), TRUE,
        <<CameraEvent("video_start", OtherId, 20), S10,
          CameraEvent("video_end", OtherId, 40), S30>>),
      DeviceFile(FitName("b"), TRUE,
        <<CameraEvent("video_start", TargetId, 20), S10, S20, S30, S40,
          CameraEvent("video_end", TargetId, 40)>>),
      DeviceFile(FitName("c"), TRUE,
        <<[name |-> "camera_event",
           fields |-> [camera_event_type |-> "video_start", timestamp |-> 20]], S20>>),
      DeviceFile(FitName("d"), FALSE, <<>>),
      DeviceFile(FitName("e"), TRUE,
        <<CameraEvent("video_end", TargetId, 40), S30>>),
      DeviceFile(FitName("g"), TRUE,
        <<CameraEvent("video_start", TargetId, 30), S30, S40,
          CameraEvent("video_end", TargetId, 40)>>),
      DeviceFile(FitName("h"), TRUE,
        <<[name |-> "camera_event",
           fields |-> [camera_file_uuid |-> TargetId, timestamp |-> 20]], S20>>),
      DeviceFile(<<"n", ".", "t", "x", "t">>, TRUE, <<>>) }

Distinct(seq) == \A i, j \in 1..Len(seq) : i # j => seq[i].name # seq[j].name

FixedListings ==
    { l \in UNION { [1..k -> FixedFiles] : k \in 0..MaxFiles } : Distinct(l) }

\* The camera events of a generated file: one start and one end; duplicates
\* and another session's events around them; the end before the start.
EventOrders ==
    { <<CameraEvent("video_start", TargetId, 20), CameraEvent("video_end", TargetId, 40)>>,
      <<CameraEvent("video_start", OtherId, 30), CameraEvent("video_start", TargetId, 20),
        CameraEvent("video_start", TargetId, 30), CameraEvent("video_end", OtherId, 30),
        CameraEvent("video_end", TargetId, 40), CameraEvent("video_end", TargetId, 30)>>,
      <<CameraEvent("video_end", TargetId, 30), CameraEvent("video_start", TargetId, 10)>> }

GeneratedListings ==
    { <<DeviceFile(FitName("w"), TRUE, ev \o rows)>> :
        ev \in EventOrders, rows \in SampleSeqs }

\* A video that carries the session identifier and one that carries none.
VideoWithId == Tree(3, <<Leaf(NameFree, 3)>>, <<>>, <<>>, <<>>)
VideoWithoutId == Tree(1, <<Leaf(NameFree, 3)>>, <<>>, <<>>, <<>>)

\* ---------------------------------------------------------------- get_fit_file_for_video

\* [camera_event['camera_file_uuid'] for camera_event in camera_events_data]:
\* a KeyError when an event has no such key.
UuidsKeyError(events) ==
    \E i \in 1..Len(events) : "camera_file_uuid" \notin DOMAIN events[i]

\* video_uuid in camera_events_uuids (None equals no string)
UuidIn(u, events) ==
    u.some /\ \E i \in 1..Len(events) : events[i]["camera_file_uuid"] = u.val

\* The body of the for loop (lines 102-106) on one entry of the listing.
ScanEntry(entry, u) ==
    IF ~EndsWith(entry.name, DotFit) THEN "skip"
    ELSE IF ~entry.decodes THEN "FitParseError"
    ELSE LET events == parse_fit_file(entry.messages).camera_events_data
         IN  IF UuidsKeyError(events) THEN "KeyError"
             ELSE IF UuidIn(u, events) THEN "match"
             ELSE "nomatch"

InitExtract ==
    /\ top \in {VideoWithId, VideoWithoutId}
    /\ mutation = NoDamage
    /\ file = SerBoxes(top)
    /\ pos = 0
    /\ cidx = 1
    /\ uuid = None
    /\ bpc = "idle"
    /\ bexc = ""
    /\ scanned = 0
    /\ ParseIdle
    /\ \/ /\ listing \in FixedListings
          /\ command \in {"get_matching_fit", "get_video_data"}
       \/ /\ listing \in GeneratedListings
          /\ command = "get_video_data"
          /\ top = VideoWithId
    /\ video_uuid = None
    /\ fit_file = None
    /\ camera_events_data = None
    /\ telemetry_data = None
    /\ lidx = 1
    /\ decoded = <<>>
    /\ epc = "idle"
    /\ eexc = NoExc
    /\ df = None
    /\ table = None

\* video_uuid = get_video_uuid(video_path)
\* fit_file, camera_events_data, telemetry_data = None, None, None
Call ==
    /\ epc = "idle"
    /\ LET r == get_video_uuid(file)
       IN  IF r.raised
           THEN /\ epc' = "raised"
                /\ eexc' = [exc |-> r.exc, explicit |-> FALSE, at |-> "scan"]
                /\ UNCHANGED video_uuid
           ELSE /\ epc' = "scan"
                /\ video_uuid' = r.uuid
                /\ UNCHANGED eexc
    /\ fit_file' = None
    /\ camera_events_data' = None
    /\ telemetry_data' = None
    /\ lidx' = 1
    /\ UNCHANGED <<command, listing, decoded, df, table, boxVars, parseVars>>

InScan == epc = "scan" /\ lidx <= Len(listing)

\* an entry that does not end with '.fit'
ScanSkipEntry ==
    /\ InScan
    /\ ScanEntry(listing[lidx], video_uuid) = "skip"
    /\ fit_file' = Some(listing[lidx].name)
    /\ lidx' = lidx + 1
    /\ UNCHANGED <<command, listing, video_uuid, camera_events_data, telemetry_data,
                   decoded, epc, eexc, df, table, boxVars, parseVars>>

\* a candidate that is decoded and does not hold the identifier
ScanNoMatch ==
    /\ InScan
    /\ ScanEntry(listing[lidx], video_uuid) = "nomatch"
    /\ fit_file' = Some(listing[lidx].name)
    /\ LET r == parse_fit_file(listing[lidx].messages)
       IN  /\ camera_events_data' = Some(r.camera_events_data)
           /\ telemetry_data' = Some(r.telemetry_data)
    /\ decoded' = Append(decoded, listing[lidx].name)
    /\ lidx' = lidx + 1
    /\ UNCHANGED <<command, listing, video_uuid, epc, eexc, df, table, boxVars, parseVars>>

\* a candidate that holds the identifier: break, then return
ScanMatch ==
    /\ InScan
    /\ ScanEntry(listing[lidx], video_uuid) = "match"
    /\ fit_file' = Some(listing[lidx].name)
    /\ LET r == parse_fit_file(listing[lidx].messages)
       IN  /\ camera_events_data' = Some(r.camera_events_data)
           /\ telemetry_data' = Some(r.telemetry_data)
    /\ decoded' = Append(decoded, listing[lidx].name)
    /\ epc' = "scanned"
    /\ UNCHANGED <<command, listing, video_uuid, lidx, eexc, df, table, boxVars, parseVars>>

\* a candidate the codec rejects, or an event without identifier key
ScanRaise ==
    /\ InScan
    /\ LET k == ScanEntry(listing[lidx], video_uuid)
           r == parse_fit_file(listing[lidx].messages)
       IN  /\ k \in {"FitParseError", "KeyError"}
           /\ eexc' = [exc |-> k, explicit |-> FALSE, at |-> "scan"]
           /\ IF k = "KeyError"
              THEN /\ camera_events_data' = Some(r.camera_events_data)
                   /\ telemetry_data' = Some(r.telemetry_data)
              ELSE UNCHANGED <<camera_events_data, telemetry_data>>
    /\ fit_file' = Some(listing[lidx].name)
    /\ decoded' = Append(decoded, listing[lidx].name)
    /\ epc' = "raised"
    /\ UNCHANGED <<command, listing, video_uuid, lidx, df, table, boxVars, parseVars>>

\* the listing is exhausted: return fit_file, camera_events_data, telemetry_data
ScanExhausted ==
    /\ epc = "scan"
    /\ lidx > Len(listing)
    /\ epc' = "scanned"
    /\ UNCHANGED <<command, listing, video_uuid, fit_file, camera_events_data,
                   telemetry_data, lidx, decoded, eexc, df, table, boxVars, parseVars>>

\* get_matching_fit: print the file name
PrintMatch ==
    /\ epc = "scanned"
    /\ command = "get_matching_fit"
    /\ epc' = "done"
    /\ UNCHANGED <<command, listing, video_uuid, fit_file, camera_events_data,
                   telemetry_data, lidx, decoded, eexc, df, table, boxVars, parseVars>>

\* ---------------------------------------------------------------- get_telemetry_dataframe

\* [camera_event['timestamp'] for camera_event in events
\*    if camera_event['camera_file_uuid'] == u and camera_event['camera_event_type'] == type]
\* from index i on: the list, or the KeyError of the first event that lacks a
\* key the comprehension reads.
RECURSIVE BoundaryFrom(_, _, _, _, _)
BoundaryFrom(events, i, u, type, acc) ==
    IF i > Len(events) THEN [exc |-> "", list |-> acc]
    ELSE LET e == events[i]
         IN  IF "camera_file_uuid" \notin DOMAIN e THEN [exc |-> "KeyError", list |-> acc]
             ELSE IF e["camera_file_uuid"] # u THEN BoundaryFrom(events, i + 1, u, type, acc)
             ELSE IF "camera_event_type" \notin DOMAIN e THEN [exc |-> "KeyError", list |-> acc]
             ELSE IF e["camera_event_type"] # type THEN BoundaryFrom(events, i + 1, u, type, acc)
             ELSE IF "timestamp" \notin DOMAIN e THEN [exc |-> "KeyError", list |-> acc]
             ELSE BoundaryFrom(events, i + 1, u, type, Append(acc, e["timestamp"]))

\* [...][0]
BoundaryPick(list) == list[1]

Failure(exc, explicit, frame) ==
    [exc |-> [exc |-> exc, explicit |-> explicit, at |-> "extract"], df |-> frame, table |-> None]

\* Lines 121-140 on what get_fit_file_for_video returned.
Extract(f, ff, ced, td) ==
    LET v == get_video_uuid(f)
        starts == BoundaryFrom(ced.val, 1, v.uuid.val, "video_start", <<>>)
        ends == BoundaryFrom(ced.val, 1, v.uuid.val, "video_end", <<>>)
        frame == fillna_pad(DataFrame(td.val))
    IN  IF v.raised THEN Failure(v.exc, FALSE, None)
        ELSE IF ~v.uuid.some THEN Failure("IOError", TRUE, None)
        ELSE IF ~ff.some THEN Failure("FileNotFoundError", TRUE, None)
        ELSE IF ~ced.some THEN Failure("TypeError", FALSE, None)
        ELSE IF starts.exc # "" THEN Failure(starts.exc, FALSE, None)
        ELSE IF starts.list = <<>> THEN Failure("IndexError", FALSE, None)
        ELSE IF ends.exc # "" THEN Failure(ends.exc, FALSE, None)
        ELSE IF ends.list = <<>> THEN Failure("IndexError", FALSE, None)
        ELSE IF "timestamp" \notin Columns(td.val)
             THEN Failure("AttributeError", FALSE, Some(frame))
        ELSE [exc |-> NoExc, df |-> Some(frame),
              table |-> Some(TrimFrom(frame, 1, BoundaryPick(starts.list),
                                      BoundaryPick(ends.list), <<>>))]

\* get_video_data: the frame is returned (and written by the caller)
ExtractTable ==
    /\ epc = "scanned"
    /\ command = "get_video_data"
    /\ LET r == Extract(file, fit_file, camera_events_data, telemetry_data)
       IN  /\ r.table.some
           /\ df' = r.df
           /\ table' = r.table
    /\ epc' = "done"
    /\ UNCHANGED <<command, listing, video_uuid, fit_file, camera_events_data,
                   telemetry_data, lidx, decoded, eexc, boxVars, parseVars>>

\* get_video_data: one of the lines 121-140 raises
ExtractRaise ==
    /\ epc = "scanned"
    /\ command = "get_video_data"
    /\ LET r == Extract(file, fit_file, camera_events_data, telemetry_data)
       IN  /\ ~r.table.some
           /\ df' = r.df
           /\ eexc' = r.exc
    /\ epc' = "raised"
    /\ UNCHANGED <<command, listing, video_uuid, fit_file, camera_events_data,
                   telemetry_data, lidx, decoded, table, boxVars, parseVars>>

NextExtract ==
    \/ Call
    \/ ScanSkipEntry
    \/ ScanNoMatch
    \/ ScanMatch
    \/ ScanRaise
    \/ ScanExhausted
    \/ PrintMatch
    \/ ExtractTable
    \/ ExtractRaise

SpecExtract == InitExtract /\ [][NextExtract]_vars

\* ---------------------------------------------------------------- matcher claims

\* The identifier the video carries at moov -> udta -> uuid, if any.
VideoId == NestedPath(top)

\* The entry is a candidate whose messages hold a camera event that carries id.
HoldsId(entry, id) ==
    /\ EndsWith(entry.name, DotFit)
    /\ entry.decodes
    /\ \E i \in 1..Len(entry.messages) :
          /\ entry.messages[i].name = "camera_event"
          /\ "camera_file_uuid" \in DOMAIN entry.messages[i].fields
          /\ entry.messages[i].fields["camera_file_uuid"] = id

Matches(i) == VideoId.found /\ HoldsId(listing[i], VideoId.payload)
AnyMatch == \E i \in 1..Len(listing) : Matches(i)
FirstMatch ==
    CHOOSE i \in 1..Len(listing) : Matches(i) /\ \A j \in 1..(i - 1) : ~Matches(j)

\* get_fit_file_for_video is over, by a return or by an exception.
ScanOver == epc \in {"scanned", "done", "raised"}
ScanReturned == epc \in {"scanned", "done"} \/ (epc = "raised" /\ eexc.at = "extract")

\* C1: when no candidate of the listing holds a camera event with the video's
\* identifier, get_fit_file_for_video returns (None, None, None) and raises
\* nothing.
C1_NoMatchIsNotFound ==
    (ScanOver /\ ~AnyMatch) =>
        /\ ScanReturned
        /\ fit_file = None
        /\ camera_events_data = None
        /\ telemetry_data = None

\* C2: when some candidate holds the video's identifier,
\* get_fit_file_for_video returns the first such candidate of the listing with
\* that candidate's decode result, and decodes no candidate after it.
C2_FirstMatchReturned ==
    (ScanOver /\ AnyMatch) =>
        LET k == FirstMatch
            r == parse_fit_file(listing[k].messages)
        IN  /\ ScanReturned
            /\ fit_file = Some(listing[k].name)
            /\ camera_events_data = Some(r.camera_events_data)
            /\ telemetry_data = Some(r.telemetry_data)
            /\ \A j \in (k + 1)..Len(listing) :
                  \A d \in 1..Len(decoded) : decoded[d] # listing[j].name

\* ---------------------------------------------------------------- extractor claims

ExtractOver == command = "get_video_data" /\ epc \in {"done", "raised"}

\* An event of the given type tagged with id.
IsBoundary(e, id, type) ==
    /\ "camera_file_uuid" \in DOMAIN e
    /\ e["camera_file_uuid"] = id
    /\ "camera_event_type" \in DOMAIN e
    /\ e["camera_event_type"] = type

HasBoundary(events, id, type) == \E i \in 1..Len(events) : IsBoundary(events[i], id, type)

\* The timestamp of the first event of the given type tagged with id.
FirstBoundary(events, id, type) ==
    events[CHOOSE i \in 1..Len(events) :
              /\ IsBoundary(events[i], id, type)
              /\ \A j \in 1..(i - 1) : ~IsBoundary(events[j], id, type)]["timestamp"]

\* The index labels of the returned rows.
TableIndex == [k \in 1..Len(table.val) |-> table.val[k].index]
Increasing(seq) == \A a, b \in 1..Len(seq) : a < b => seq[a] < seq[b]
Labels(seq) == { seq[k] : k \in 1..Len(seq) }

\* The last row up to i that has the key c, 0 when there is none.
LastWith(rows, i, c) ==
    IF \E j \in 1..i : c \in DOMAIN rows[j]
    THEN CHOOSE j \in 1..i :
            c \in DOMAIN rows[j] /\ \A k \in (j + 1)..i : c \notin DOMAIN rows[k]
    ELSE 0

\* C4 as stated: the returned rows are, in source order, exactly the telemetry
\* records whose own timestamp t satisfies start <= t < end, start and end
\* being the timestamps of the first video_start and the first video_end event
\* tagged with the video's identifier.
C4_WindowOwnTimestamp ==
    table.some =>
        LET rows == telemetry_data.val
            start == FirstBoundary(camera_events_data.val, VideoId.payload, "video_start")
            end == FirstBoundary(camera_events_data.val, VideoId.payload, "video_end")
        IN  /\ Increasing(TableIndex)
            /\ Labels(TableIndex) =
                  { i - 1 : i \in { j \in 1..Len(rows) :
                        /\ "timestamp" \in DOMAIN rows[j]
                        /\ start <= rows[j]["timestamp"]
                        /\ rows[j]["timestamp"] < end } }

\* C4 amended: the returned rows are, in source order, exactly the telemetry
\* records whose timestamp after the forward fill (their own, or the one of
\* the last record before them that has one) satisfies start <= t < end; a
\* record with no timestamp at or before it is dropped.
C4_WindowFilledTimestamp ==
    table.some =>
        LET rows == telemetry_data.val
            start == FirstBoundary(camera_events_data.val, VideoId.payload, "video_start")
            end == FirstBoundary(camera_events_data.val, VideoId.payload, "video_end")
            Kept(i) ==
                LET j == LastWith(rows, i, "timestamp")
                IN  j # 0 /\ start <= rows[j]["timestamp"] /\ rows[j]["timestamp"] < end
        IN  /\ Increasing(TableIndex)
            /\ Labels(TableIndex) = { i - 1 : i \in { j \in 1..Len(rows) : Kept(j) } }

\* A returned table that kept a record stamped exactly start and dropped one
\* stamped exactly end.
C4_Witness ==
    /\ table.some
    /\ LET rows == telemetry_data.val
           start == FirstBoundary(camera_events_data.val, VideoId.payload, "video_start")
           end == FirstBoundary(camera_events_data.val, VideoId.payload, "video_end")
       IN  /\ \E i \in 1..Len(rows) :
                /\ "timestamp" \in DOMAIN rows[i]
                /\ rows[i]["timestamp"] = end
                /\ (i - 1) \notin Labels(TableIndex)
           /\ \E i \in 1..Len(rows) :
                /\ "timestamp" \in DOMAIN rows[i]
                /\ rows[i]["timestamp"] = start
                /\ (i - 1) \in Labels(TableIndex)
           /\ Len(table.val) >= 2

\* C5: when the matched file has no video_start or no video_end event tagged
\* with the video's identifier, extraction ends in a failure raised for that
\* purpose (never in a table, never in an incidental error).
C5_MissingBoundaryIsTyped ==
    (/\ ExtractOver
     /\ AnyMatch
     /\ ScanReturned
     /\ LET events == parse_fit_file(listing[FirstMatch].messages).camera_events_data
        IN  \/ ~HasBoundary(events, VideoId.payload, "video_start")
            \/ ~HasBoundary(events, VideoId.payload, "video_end"))
        => (epc = "raised" /\ eexc.explicit)

\* C6: when the video carries no identifier, extraction fails with the
\* IOError of line 124 whatever the directory holds.
C6_NoIdentifierFirst ==
    (ExtractOver /\ ~VideoId.found) =>
        (epc = "raised" /\ eexc.exc = "IOError" /\ eexc.explicit)

\* C7: in the frame before the trim every cell holds the value of the last
\* record at or before its row that has the field, and is empty when no such
\* record exists; the returned rows are rows of that frame.
C7_ForwardFill ==
    df.some =>
        LET rows == telemetry_data.val
        IN  /\ Len(df.val) = Len(rows)
            /\ \A i \in 1..Len(rows) :
                  /\ DOMAIN df.val[i] = Columns(rows)
                  /\ \A c \in Columns(rows) :
                        LET j == LastWith(rows, i, c)
                        IN  df.val[i][c] = IF j = 0 THEN NaN ELSE Cell(rows[j][c])
            /\ table.some =>
                  \A k \in 1..Len(table.val) :
                      table.val[k].row = df.val[table.val[k].index + 1]

\* A returned row whose altitude was filled from a record that the trim
\* dropped, in a frame where a leading gap stayed empty.
C7_Witness ==
    /\ table.some
    /\ LET rows == telemetry_data.val
       IN  /\ \E k \in 1..Len(table.val) :
                LET i == table.val[k].index + 1
                    j == LastWith(rows, i, "enhanced_altitude")
                IN  /\ "enhanced_altitude" \notin DOMAIN rows[i]
                    /\ j # 0
                    /\ (j - 1) \notin Labels(TableIndex)
                    /\ table.val[k].row["enhanced_altitude"] = Cell(rows[j]["enhanced_altitude"])
           /\ \E i \in 1..Len(rows) : \E c \in Columns(rows) : df.val[i][c].isna

====
